---- MODULE Spec2Model ----
(***************************************************************************)
(* Model of pynws: geocoding.py (address -> Coordinates) and weather.py    *)
(* (NWSClient, LocationData, WeeklyForecast, Forecast.heat_index).         *)
(*                                                                         *)
(* Numbers.  Python floats are modelled in fixed point.  Heat-index values *)
(* are integers in units of 1/Scale degrees F; the Rothfusz polynomial is  *)
(* evaluated exactly in units of 1e-8 and floored to 1/Scale.  Geocoder    *)
(* coordinates are integers in units of 1e-5 degrees.  Wall-clock time is  *)
(* an integer tick counter.                                                *)
(***************************************************************************)
EXTENDS Integers, Sequences, FiniteSets, TLC

VARIABLES
    forecast,   \* a Forecast: [temperature, relative_humidity]
    hi,         \* result of the last heat_index() call on forecast
    geo,        \* last get_coords_from_address call: arguments, request, outcome
    now,        \* datetime.datetime.now(), in ticks
    heap,       \* the WeeklyForecast / LocationData objects that exist
    client,     \* the caller's NWSClient
    call        \* last weather-side call: arguments, requests issued, outcome

vars == <<forecast, hi, geo, now, heap, client, call>>

-----------------------------------------------------------------------------
(* Bounds *)
MinTemp == 60
MaxTemp == 115
MaxRH == 100
MaxMatches == 2
MaxTime == 2
MaxAge == 1
MaxObjects == 1

-----------------------------------------------------------------------------
(* Forecast.heat_index, weather.py 57-79 *)

Scale == 10 ^ 4

Abs(x) == IF x < 0 THEN -x ELSE x

RECURSIVE SqrtBisect(_, _, _)
SqrtBisect(n, lo, up) ==
    IF up - lo <= 1 THEN lo
    ELSE LET mid == (lo + up) \div 2
         IN  IF mid * mid <= n THEN SqrtBisect(n, mid, up)
                               ELSE SqrtBisect(n, lo, mid)

\* floor(sqrt(n)) for 0 <= n < 40000^2
ISqrt(n) == SqrtBisect(n, 0, 40000)

\* (a * Scale + b) * m in units of 1e-8, as base-Scale limbs <<high, mid, low>>;
\* the coefficient comes split so that no product leaves the 32-bit integers
Term(sign, a, b, m) ==
    LET p == m \div Scale
        q == m % Scale
    IN  <<sign * a * p, sign * (a * q + b * p), sign * b * q>>

\* line 67 with the humidity term left out of the halved sum
BaseEstimate_rh_outside(t, rh) ==
    ((t * Scale + 61 * Scale + (t - 68) * 12000) \div 2) + rh * 940

\* line 67: 0.5 * (t + 61.0 + ((t - 68.0) * 1.2) + (rh * 0.094)), exact
BaseEstimate(t, rh) ==
    (t * Scale + 61 * Scale + (t - 68) * 12000 + rh * 940) \div 2

\* line 71: the Rothfusz regression, floored to 1/Scale
Rothfusz(t, rh) ==
    LET terms == << Term(-1, 423790, 0, 1),            \* -42.379
                    Term(1, 20490, 1523, t),           \* + 2.04901523*t
                    Term(1, 101433, 3127, rh),         \* + 10.14333127*rh
                    Term(-1, 2247, 5541, t * rh),      \* - .22475541*t*rh
                    Term(-1, 68, 3783, t * t),         \* - .00683783*t*t
                    Term(-1, 548, 1717, rh * rh),      \* - .05481717*rh*rh
                    Term(1, 12, 2874, t * t * rh),     \* + .00122874*t*t*rh
                    Term(1, 8, 5282, t * rh * rh),     \* + .00085282*t*rh*rh
                    Term(-1, 0, 199, t * t * rh * rh)  \* - .00000199*t*t*rh*rh
                 >>
        Sum(k) == terms[1][k] + terms[2][k] + terms[3][k] + terms[4][k] + terms[5][k]
                  + terms[6][k] + terms[7][k] + terms[8][k] + terms[9][k]
    IN  Sum(1) * Scale + Sum(2) + (Sum(3) \div Scale)

\* line 75: ((13 - rh) / 4) * sqrt((17 - abs(t - 95)) / 17), truncated to 1/Scale
LowHumidityAdjustment(t, rh) ==
    ((13 - rh) * ISqrt(((17 - Abs(t - 95)) * Scale * Scale) \div 17)) \div 4

\* line 77: ((rh - 85) / 10) * ((87 - t) / 5), exact
HighHumidityAdjustment(t, rh) ==
    (rh - 85) * (87 - t) * (Scale \div 50)

\* heat_index with the high-humidity test reusing the 112 limit of the line above
heat_index_wide(f) ==
    LET t == f.temperature
        rh == f.relative_humidity
        est == BaseEstimate(t, rh)
    IN  IF est >= 80 * Scale
        THEN IF 80 <= t /\ t <= 112 /\ rh < 13
             THEN [value |-> Rothfusz(t, rh) - LowHumidityAdjustment(t, rh), path |-> "low"]
             ELSE IF rh > 85 /\ 80 <= t /\ t <= 112
             THEN [value |-> Rothfusz(t, rh) + HighHumidityAdjustment(t, rh), path |-> "high"]
             ELSE [value |-> Rothfusz(t, rh), path |-> "regression"]
        ELSE [value |-> est, path |-> "base"]

\* lines 63-79: the value heat_index returns and the branch that produced it
heat_index(f) ==
    LET t == f.temperature
        rh == f.relative_humidity
        est == BaseEstimate(t, rh)
    IN  IF est >= 80 * Scale
        THEN IF 80 <= t /\ t <= 112 /\ rh < 13
             THEN [value |-> Rothfusz(t, rh) - LowHumidityAdjustment(t, rh), path |-> "low"]
             ELSE IF rh > 85 /\ 80 <= t /\ t <= 87
             THEN [value |-> Rothfusz(t, rh) + HighHumidityAdjustment(t, rh), path |-> "high"]
             ELSE [value |-> Rothfusz(t, rh), path |-> "regression"]
        ELSE [value |-> est, path |-> "base"]

NoHeatIndex == [value |-> 0, path |-> "none"]

Forecasts == [temperature : MinTemp..MaxTemp, relative_humidity : 0..MaxRH]

\* forecast.heat_index() called by the caller
HeatIndex ==
    /\ hi' = heat_index(forecast)
    /\ UNCHANGED <<forecast, geo, now, heap, client, call>>

-----------------------------------------------------------------------------
(* HTTP: what requests.get / raise_for_status / json.loads can produce *)

NoErrors == [present |-> FALSE, value |-> <<>>]
ErrorsFields == { NoErrors,
                  [present |-> TRUE, value |-> <<>>],
                  [present |-> TRUE, value |-> <<"Unexpected problem">>] }

\* outcome of a call: a returned value or a raised exception
Raised(err, detail) ==
    [status |-> "raised", err |-> err, detail |-> detail, lat |-> 0, long |-> 0]
Returned(lat, long) ==
    [status |-> "returned", err |-> "", detail |-> <<>>, lat |-> lat, long |-> long]
NoOutcome == [status |-> "none", err |-> "", detail |-> <<>>, lat |-> 0, long |-> 0]

\* the exception the try block raised: requests.get itself (no response, r never
\* bound) or raise_for_status on a non-2xx response
TransportError(resp) == IF resp.conn THEN "HTTPError" ELSE "ConnectionError"

\* the except block of the three request sites, as the code runs it:
\* geocoding.py 27-33, weather.py 118-124 and 144-150
ExceptBlock(resp) ==
    IF ~resp.conn THEN Raised("UnboundLocalError", <<>>)             \* r.content, r unbound
    ELSE IF resp.body.json = "invalid" THEN Raised("JSONDecodeError", <<>>)
    ELSE IF resp.body.json = "list" THEN Raised("AttributeError", <<>>)  \* list has no .get
    ELSE IF resp.body.errors.present /\ resp.body.errors.value # <<>>
         THEN Raised("ValueError", resp.body.errors.value)
    ELSE Raised(TransportError(resp), <<>>)                          \* raise e

-----------------------------------------------------------------------------
(* geocoding.py *)

GEOCODER_FORMAT_URL == "https://geocoding.geo.census.gov/geocoder/locations/address"

\* round(v, 4) of a coordinate given in units of 1e-5; the result stays in units
\* of 1e-5.  An exact decimal tie goes to the even 4th digit.
Round4(v) ==
    LET q == v \div 10
        r == v % 10
    IN  IF r < 5 THEN q * 10
        ELSE IF r > 5 THEN (q + 1) * 10
        ELSE IF q % 2 = 0 THEN q * 10 ELSE (q + 1) * 10

\* lines 13-21: the query parameters, optional ones only when non-empty
QueryParams(address, city, state, zip) ==
    LET opt == [city |-> city, state |-> state, zip |-> zip]
        keys == {"format", "benchmark", "street"} \cup {k \in DOMAIN opt : opt[k] # ""}
    IN  [k \in keys |-> CASE k = "format" -> "json"
                          [] k = "benchmark" -> "2020"
                          [] k = "street" -> address
                          [] OTHER -> opt[k]]

Ys == {3889770, 3889765, 3889774}
Xs == {-7703650, -7703645, -7703656}
Matches == [x : Xs, y : Ys]

RECURSIVE SeqsUpTo(_, _)
SeqsUpTo(S, n) ==
    IF n = 0 THEN {<<>>}
    ELSE LET shorter == SeqsUpTo(S, n - 1)
         IN  shorter \cup {Append(q, e) : q \in {w \in shorter : Len(w) = n - 1}, e \in S}

\* bodies of a geocoder response.  result: the top-level key is absent, an empty
\* object, an object without addressMatches, or an object with the match list
GeoErrorBodies ==
    {[json |-> j, errors |-> NoErrors, result |-> "absent", matches |-> <<>>] :
        j \in {"invalid", "list"}}
    \cup {[json |-> "dict", errors |-> e, result |-> "absent", matches |-> <<>>] :
        e \in ErrorsFields}
GeoOkBodies ==
    {[json |-> j, errors |-> NoErrors, result |-> "absent", matches |-> <<>>] :
        j \in {"invalid", "list"}}
    \cup {[json |-> "dict", errors |-> NoErrors, result |-> r, matches |-> <<>>] :
        r \in {"absent", "empty", "nomatchkey"}}
    \cup {[json |-> "dict", errors |-> NoErrors, result |-> "present", matches |-> m] :
        m \in SeqsUpTo(Matches, MaxMatches)}
NoBody == [json |-> "invalid", errors |-> NoErrors, result |-> "absent", matches |-> <<>>]

GeoResponses ==
    {[conn |-> FALSE, ok |-> FALSE, body |-> NoBody]}
    \cup {[conn |-> TRUE, ok |-> FALSE, body |-> b] : b \in GeoErrorBodies}
    \cup {[conn |-> TRUE, ok |-> TRUE, body |-> b] : b \in GeoOkBodies}

\* the 2xx path with x taken for the latitude and y for the longitude
ParseGeocoderBody_swapped(address, city, state, zip, body) ==
    IF body.json = "invalid" THEN Raised("JSONDecodeError", <<>>)
    ELSE IF body.json = "list" THEN Raised("AttributeError", <<>>)
    ELSE IF body.result \in {"absent", "empty"}
         THEN Raised("ValueError", <<"Census geocoder returned unexpected JSON:">>)
    ELSE IF body.result = "nomatchkey" THEN Raised("TypeError", <<>>)
    ELSE IF Len(body.matches) = 0
         THEN Raised("ValueError", <<"Invalid address:", address, city, state, zip>>)
    ELSE LET raw_coords == body.matches[1]
         IN  Returned(Round4(raw_coords.x), Round4(raw_coords.y))

\* the 2xx path without the emptiness test of line 40
ParseGeocoderBody_unchecked(address, city, state, zip, body) ==
    IF body.json = "invalid" THEN Raised("JSONDecodeError", <<>>)
    ELSE IF body.json = "list" THEN Raised("AttributeError", <<>>)
    ELSE IF body.result \in {"absent", "empty"}
         THEN Raised("ValueError", <<"Census geocoder returned unexpected JSON:">>)
    ELSE IF body.result = "nomatchkey" THEN Raised("TypeError", <<>>)
    ELSE IF Len(body.matches) = 0
         THEN Raised("IndexError", <<>>)
    ELSE LET raw_coords == body.matches[1]
         IN  Returned(Round4(raw_coords.y), Round4(raw_coords.x))

\* lines 36-45: the 2xx path
ParseGeocoderBody(address, city, state, zip, body) ==
    IF body.json = "invalid" THEN Raised("JSONDecodeError", <<>>)
    ELSE IF body.json = "list" THEN Raised("AttributeError", <<>>)       \* list has no .get
    ELSE IF body.result \in {"absent", "empty"}                          \* line 38
         THEN Raised("ValueError", <<"Census geocoder returned unexpected JSON:">>)
    ELSE IF body.result = "nomatchkey" THEN Raised("TypeError", <<>>)    \* len(None)
    ELSE IF Len(body.matches) = 0                                        \* line 40
         THEN Raised("ValueError", <<"Invalid address:", address, city, state, zip>>)
    ELSE LET raw_coords == body.matches[1]                               \* line 43
         IN  Returned(Round4(raw_coords.y), Round4(raw_coords.x))        \* line 45

Streets == {"1600 Pennsylvania Avenue"}
Cities == {"", "Washington"}
States == {"", "DC"}
Zips == {"", "20500"}

NoGeoCall ==
    [street |-> "", city |-> "", state |-> "", zip |-> "",
     resp |-> [conn |-> FALSE, ok |-> FALSE, body |-> NoBody],
     sent |-> <<>>, out |-> NoOutcome]

\* the calls a caller can make and the response each meets, before the call
GeoCalls ==
    {[street |-> a, city |-> c, state |-> s, zip |-> z, resp |-> r,
      sent |-> <<>>, out |-> NoOutcome] :
        a \in Streets, c \in Cities, s \in States, z \in Zips, r \in GeoResponses}

\* get_coords_from_address, lines 11-45, on the pending call
get_coords_from_address ==
    /\ geo.sent = <<>>
    /\ geo' = [geo EXCEPT
                 !.sent = <<[url |-> GEOCODER_FORMAT_URL,
                             params |-> QueryParams(geo.street, geo.city, geo.state, geo.zip)]>>,
                 !.out = IF geo.resp.conn /\ geo.resp.ok
                         THEN ParseGeocoderBody(geo.street, geo.city, geo.state, geo.zip,
                                                geo.resp.body)
                         ELSE ExceptBlock(geo.resp)]
    /\ UNCHANGED <<forecast, hi, now, heap, client, call>>

-----------------------------------------------------------------------------
(* weather.py: LocationData, WeeklyForecast, NWSClient *)

POINTS_API_URL == "https://api.weather.gov/points"

PyNone == "<None>"
UserAgents == {PyNone, "", "pynws-test"}

NoUrl == [base |-> "", a |-> 0, b |-> 0]
ForecastUrls ==
    {[base |-> "https://api.weather.gov/gridpoints/ILN/forecast", a |-> 35, b |-> 40],
     [base |-> "https://api.weather.gov/gridpoints/LWX/forecast", a |-> 97, b |-> 71]}

CoordinatesSet == {[lat |-> 3889770, long |-> -7703650]}

\* line 110: POINTS_API_URL.format(coords.lat, coords.long), both as {:.4f}
PointsUrl(coords) ==
    [base |-> POINTS_API_URL, a |-> Round4(coords.lat), b |-> Round4(coords.long)]

\* max_age as Python sees it: an int (the annotated type and the default 0) or a
\* datetime.timedelta; v counts seconds, respectively ticks
IntAge(v) == [type |-> "int", v |-> v]
DeltaAge(v) == [type |-> "timedelta", v |-> v]
MaxAges == {IntAge(v) : v \in 0..MaxAge} \cup {DeltaAge(v) : v \in 0..MaxAge}

\* LocationData.__init__ 14-27 and WeeklyForecast.__init__ 85-89: max_age as
\* passed, created = now.  fetched marks the objects get_weekly_forecast built.
NewObject(cls, max_age, url, fetched) ==
    [cls |-> cls, max_age |-> max_age, created |-> now,
     weekly_forecast_url |-> url, fetched |-> fetched]

\* is_expired, lines 30-31 and 91-92: datetime.now() - self.created > self.max_age.
\* timedelta > timedelta compares; timedelta > int raises TypeError.
is_expired(obj, t) ==
    IF obj.max_age.type = "timedelta"
    THEN [raised |-> FALSE, value |-> t - obj.created > obj.max_age.v]
    ELSE [raised |-> TRUE, value |-> FALSE]

\* line 105 without the test for the empty string
AssertUserAgent_not_none(user_agent) == user_agent # PyNone

\* line 105: the assertion of NWSClient.__init__
AssertUserAgent(user_agent) == user_agent # PyNone /\ user_agent # ""

PointsBodies ==
    {[json |-> j, errors |-> NoErrors, properties |-> "absent", forecast |-> NoUrl] :
        j \in {"invalid", "list"}}
    \cup {[json |-> "dict", errors |-> NoErrors, properties |-> "absent", forecast |-> NoUrl]}
    \cup {[json |-> "dict", errors |-> NoErrors, properties |-> "present", forecast |-> u] :
        u \in ForecastUrls}
ForecastBodies ==
    {[json |-> j, errors |-> NoErrors, properties |-> "absent", forecast |-> NoUrl] :
        j \in {"invalid", "list"}}
    \cup {[json |-> "dict", errors |-> NoErrors, properties |-> p, forecast |-> NoUrl] :
        p \in {"absent", "present"}}
WeatherErrorBodies ==
    {[json |-> j, errors |-> NoErrors, properties |-> "absent", forecast |-> NoUrl] :
        j \in {"invalid", "list"}}
    \cup {[json |-> "dict", errors |-> e, properties |-> "absent", forecast |-> NoUrl] :
        e \in ErrorsFields}
NoWeatherBody ==
    [json |-> "invalid", errors |-> NoErrors, properties |-> "absent", forecast |-> NoUrl]

FailedResponses ==
    {[conn |-> FALSE, ok |-> FALSE, body |-> NoWeatherBody]}
    \cup {[conn |-> TRUE, ok |-> FALSE, body |-> b] : b \in WeatherErrorBodies}
PointsResponses ==
    FailedResponses \cup {[conn |-> TRUE, ok |-> TRUE, body |-> b] : b \in PointsBodies}
ForecastResponses ==
    FailedResponses \cup {[conn |-> TRUE, ok |-> TRUE, body |-> b] : b \in ForecastBodies}

Request(kind, url, ua) == [kind |-> kind, url |-> url, ua |-> ua]

\* lines 127-129 and 153-155: json.loads, then the constructor's key accesses
ParseProperties(body) ==
    IF body.json = "invalid" THEN Raised("JSONDecodeError", <<>>)
    ELSE IF body.json = "list" THEN Raised("TypeError", <<>>)     \* list['properties']
    ELSE IF body.properties = "absent" THEN Raised("KeyError", <<>>)
    ELSE NoOutcome

\* get_location_data, lines 109-129: the request it issues, how it ends, and
\* the forecast URL of the LocationData it returns
LocationResult(coords, resp) ==
    LET out == IF resp.conn /\ resp.ok THEN ParseProperties(resp.body)
               ELSE ExceptBlock(resp)
    IN  [sent |-> <<Request("points", PointsUrl(coords), client.user_agent)>>,
         out |-> out,
         url |-> IF out.status = "raised" THEN NoUrl ELSE resp.body.forecast]

NoCall ==
    [op |-> "none", ua |-> "", cached |-> 0, target |-> 0, at |-> 0,
     resp1 |-> [conn |-> FALSE, ok |-> FALSE, body |-> NoWeatherBody],
     resp2 |-> [conn |-> FALSE, ok |-> FALSE, body |-> NoWeatherBody],
     sent |-> <<>>, stage |-> "none", status |-> "none", err |-> "", detail |-> <<>>,
     url |-> NoUrl, result |-> 0, value |-> FALSE]

\* time passes between calls
Tick ==
    /\ now < MaxTime
    /\ now' = now + 1
    /\ UNCHANGED <<forecast, hi, geo, heap, client, call>>

\* NWSClient.__init__, lines 104-107
NWSClientInit(user_agent) ==
    /\ IF AssertUserAgent(user_agent)
       THEN /\ client' = [exists |-> TRUE, user_agent |-> user_agent]
            /\ call' = [NoCall EXCEPT !.op = "NWSClient", !.ua = user_agent, !.at = now,
                                      !.stage = "done", !.status = "returned"]
       ELSE /\ client' = client
            /\ call' = [NoCall EXCEPT !.op = "NWSClient", !.ua = user_agent, !.at = now,
                                      !.stage = "assert", !.status = "raised",
                                      !.err = "AssertionError",
                                      !.detail = <<"The NWS API requires a User-Agent string!">>]
    /\ UNCHANGED <<forecast, hi, geo, now, heap>>

\* the caller builds a WeeklyForecast or a LocationData itself (lines 85-89, 14-27)
Construct(cls, max_age, url) ==
    /\ Len(heap) < MaxObjects
    /\ heap' = Append(heap, NewObject(cls, max_age, url, FALSE))
    /\ UNCHANGED <<forecast, hi, geo, now, client, call>>

\* obj.is_expired() called by the caller
IsExpired(i) ==
    /\ i \in 1..Len(heap)
    /\ LET e == is_expired(heap[i], now)
       IN  call' = [NoCall EXCEPT !.op = "is_expired", !.target = i, !.at = now,
                                  !.stage = "expiry",
                                  !.status = IF e.raised THEN "raised" ELSE "returned",
                                  !.err = IF e.raised THEN "TypeError" ELSE "",
                                  !.value = e.value]
    /\ UNCHANGED <<forecast, hi, geo, now, heap, client>>

\* NWSClient.get_location_data called by the caller, lines 109-129; the
\* LocationData it returns is kept as call.url, its weekly_forecast_url
GetLocationData(coords, resp) ==
    /\ client.exists
    /\ LET loc == LocationResult(coords, resp)
           failed == loc.out.status = "raised"
       IN  call' = [NoCall EXCEPT !.op = "get_location_data", !.at = now,
                                  !.resp1 = resp, !.sent = loc.sent,
                                  !.stage = IF failed THEN "points" ELSE "done",
                                  !.status = IF failed THEN "raised" ELSE "returned",
                                  !.err = loc.out.err, !.detail = loc.out.detail,
                                  !.url = loc.url]
    /\ UNCHANGED <<forecast, hi, geo, now, heap, client>>

\* line 132 with the expiry test inverted
CacheCheck_inverted(cached, t) ==
    IF cached = 0 THEN "miss"
    ELSE LET e == is_expired(heap[cached], t)
         IN  IF e.raised THEN "raise" ELSE IF e.value THEN "hit" ELSE "miss"

\* line 132: cached_result and not cached_result.is_expired().  A WeeklyForecast
\* defines neither __bool__ nor __len__, so only None is falsy.
CacheCheck(cached, t) ==
    IF cached = 0 THEN "miss"
    ELSE LET e == is_expired(heap[cached], t)
         IN  IF e.raised THEN "raise" ELSE IF e.value THEN "miss" ELSE "hit"

NoResponse == [conn |-> FALSE, ok |-> FALSE, body |-> NoWeatherBody]

\* NWSClient.get_weekly_forecast, lines 131-155; cached = 0 stands for None.
\* r1 and r2 are what the points GET and the forecast GET meet, if issued.
GetWeeklyForecast(coords, cached, r1, r2) ==
    /\ client.exists
    /\ cached = 0 \/ (cached \in 1..Len(heap) /\ heap[cached].cls = "WeeklyForecast")
    /\ LET chk == CacheCheck(cached, now)
           loc == LocationResult(coords, r1)
           out2 == IF r2.conn /\ r2.ok THEN ParseProperties(r2.body) ELSE ExceptBlock(r2)
           sent2 == Append(loc.sent, Request("forecast", loc.url, client.user_agent))
           base == [NoCall EXCEPT !.op = "get_weekly_forecast", !.cached = cached,
                                  !.at = now]
       IN  CASE chk = "raise" ->
                  /\ call' = [base EXCEPT !.stage = "expiry", !.status = "raised",
                                          !.err = "TypeError"]
                  /\ heap' = heap
             [] chk = "hit" ->
                  /\ call' = [base EXCEPT !.stage = "cache", !.status = "returned",
                                          !.result = cached]
                  /\ heap' = heap
             [] chk = "miss" /\ loc.out.status = "raised" ->
                  /\ call' = [base EXCEPT !.resp1 = r1, !.sent = loc.sent,
                                          !.stage = "points", !.status = "raised",
                                          !.err = loc.out.err, !.detail = loc.out.detail]
                  /\ heap' = heap
             [] chk = "miss" /\ loc.out.status # "raised" /\ out2.status = "raised" ->
                  /\ call' = [base EXCEPT !.resp1 = r1, !.resp2 = r2, !.sent = sent2,
                                          !.url = loc.url,
                                          !.stage = "forecast", !.status = "raised",
                                          !.err = out2.err, !.detail = out2.detail]
                  /\ heap' = heap
             [] OTHER ->
                  /\ Len(heap) < MaxObjects
                  /\ call' = [base EXCEPT !.resp1 = r1, !.resp2 = r2, !.sent = sent2,
                                          !.url = loc.url,
                                          !.stage = "done", !.status = "returned",
                                          !.result = Len(heap) + 1]
                  /\ heap' = Append(heap, NewObject("WeeklyForecast", IntAge(0), NoUrl, TRUE))
    /\ UNCHANGED <<forecast, hi, geo, now, client>>

-----------------------------------------------------------------------------
(* Specifications *)

Init ==
    /\ forecast = [temperature |-> 70, relative_humidity |-> 50]
    /\ hi = NoHeatIndex
    /\ geo = NoGeoCall
    /\ now = 0
    /\ heap = <<>>
    /\ client = [exists |-> FALSE, user_agent |-> ""]
    /\ call = NoCall

\* the responses a call can meet: only the requests it issues get one
PointsInputs(cached) ==
    IF cached # 0 /\ cached <= Len(heap) /\ CacheCheck(cached, now) # "miss"
    THEN {NoResponse} ELSE PointsResponses
ForecastInputs(r1) ==
    IF r1.conn /\ r1.ok /\ ParseProperties(r1.body).status # "raised"
    THEN ForecastResponses ELSE {NoResponse}

\* c.get_weekly_forecast(coords, cached) called by the caller
CallGetWeeklyForecast(coords, cached) ==
    \E r1 \in PointsInputs(cached) : \E r2 \in ForecastInputs(r1) :
        GetWeeklyForecast(coords, cached, r1, r2)

Next ==
    \/ Tick
    \/ \E ua \in UserAgents : NWSClientInit(ua)
    \/ \E m \in MaxAges : Construct("WeeklyForecast", m, NoUrl)
    \/ \E c \in CoordinatesSet, r \in PointsResponses : GetLocationData(c, r)
    \/ \E c \in CoordinatesSet, k \in 0..MaxObjects : CallGetWeeklyForecast(c, k)

\* the weather client and the forecasts it hands out
Spec == Init /\ [][Next]_vars

NextExpiry ==
    \/ Tick
    \/ \E m \in MaxAges : Construct("WeeklyForecast", m, NoUrl)
    \/ \E m \in MaxAges, u \in ForecastUrls : Construct("LocationData", m, u)
    \/ \E i \in 1..MaxObjects : IsExpired(i)

\* the two cacheable classes and their expiry check
SpecExpiry == Init /\ [][NextExpiry]_vars

InitGeo ==
    /\ forecast = [temperature |-> 70, relative_humidity |-> 50]
    /\ hi = NoHeatIndex
    /\ geo \in GeoCalls
    /\ now = 0
    /\ heap = <<>>
    /\ client = [exists |-> FALSE, user_agent |-> ""]
    /\ call = NoCall

NextGeo == get_coords_from_address

\* the geocoding lookup on every argument and response
SpecGeo == InitGeo /\ [][NextGeo]_vars

InitHeat ==
    /\ forecast \in Forecasts
    /\ hi = NoHeatIndex
    /\ geo = NoGeoCall
    /\ now = 0
    /\ heap = <<>>
    /\ client = [exists |-> FALSE, user_agent |-> ""]
    /\ call = NoCall

NextHeat == HeatIndex

\* the heat index of every forecast
SpecHeat == InitHeat /\ [][NextHeat]_vars

-----------------------------------------------------------------------------
(* Properties *)

IsGet == call.op = "get_weekly_forecast"
Elapsed(i) == call.at - heap[i].created

\* C1: a get_weekly_forecast call whose cached argument is supplied and whose
\* is_expired() returns false issues no HTTP request and returns that very
\* object, and no object is created or changed by the call.
CachedForecastShortCircuits ==
    [][ ( /\ call' # call
          /\ call'.op = "get_weekly_forecast"
          /\ call'.cached # 0
          /\ ~is_expired(heap[call'.cached], now).raised
          /\ ~is_expired(heap[call'.cached], now).value )
        => ( /\ call'.sent = <<>>
             /\ call'.status = "returned"
             /\ call'.result = call'.cached
             /\ heap' = heap ) ]_vars

CachedForecastShortCircuits_witness ==
    /\ IsGet
    /\ call.cached # 0
    /\ heap[call.cached].max_age.type = "timedelta"
    /\ ~(Elapsed(call.cached) > heap[call.cached].max_age.v)
    /\ call.status = "returned"

\* C2: is_expired() returns a boolean for every object the constructors
\* produce: true exactly when the time elapsed since creation exceeds max_age,
\* and true for an object built with the default max_age = 0.
IsExpiredReturnsBoolean ==
    call.op = "is_expired" =>
        /\ call.status = "returned"
        /\ call.value = (Elapsed(call.target) > heap[call.target].max_age.v)
        /\ (heap[call.target].max_age = IntAge(0) => call.value = TRUE)

\* the error a failed request must end in, as the claim C3 has it
ClaimedError(resp) ==
    IF resp.conn /\ resp.body.json = "dict" /\ resp.body.errors.present
    THEN [err |-> "ValueError", detail |-> resp.body.errors.value]
    ELSE [err |-> TransportError(resp), detail |-> <<>>]

\* C3: a failed points or forecast request ends in a provider error carrying
\* the body's errors field when the body is JSON with such a field, and in the
\* transport error itself in every other case.
FailedRequestRaisesProviderOrTransportError ==
    /\ (call.stage = "points" /\ ~(call.resp1.conn /\ call.resp1.ok)) =>
          [err |-> call.err, detail |-> call.detail] = ClaimedError(call.resp1)
    /\ (call.stage = "forecast" /\ ~(call.resp2.conn /\ call.resp2.ok)) =>
          [err |-> call.err, detail |-> call.detail] = ClaimedError(call.resp2)

Missing(user_agent) == user_agent = PyNone \/ user_agent = ""

\* C4: no GET to the weather service carries an empty or missing User-Agent:
\* no client with such a value exists, and an attempt to set one up fails with
\* the assertion error before any request is made.
UserAgentNeverEmpty ==
    /\ \A i \in 1..Len(call.sent) : ~Missing(call.sent[i].ua)
    /\ client.exists => ~Missing(client.user_agent)
    /\ (call.op = "NWSClient" /\ Missing(call.ua)) =>
          /\ call.status = "raised"
          /\ call.err = "AssertionError"
          /\ call.sent = <<>>

UserAgentNeverEmpty_witness ==
    /\ call.op = "NWSClient"
    /\ call.ua = ""
    /\ call.status = "raised"
    /\ client.exists

GeoOk == geo.sent # <<>> /\ geo.resp.conn /\ geo.resp.ok /\ geo.resp.body.json = "dict"
         /\ geo.resp.body.result = "present"

\* C5: a 2xx geocoder response with an empty addressMatches list ends in the
\* "Invalid address" ValueError naming street, city, state and zip; it never
\* ends in an index error and never returns coordinates.
EmptyMatchesRaiseInvalidAddress ==
    (GeoOk /\ geo.resp.body.matches = <<>>) =>
        /\ geo.out.status = "raised"
        /\ geo.out.err = "ValueError"
        /\ geo.out.detail = <<"Invalid address:", geo.street, geo.city, geo.state, geo.zip>>

EmptyMatchesRaiseInvalidAddress_witness ==
    /\ GeoOk
    /\ geo.resp.body.matches = <<>>
    /\ geo.city # ""
    /\ geo.zip # ""
    /\ geo.out.status = "raised"

\* v is w rounded to 4 decimal places (both in units of 1e-5)
RoundedTo4(v, w) == v % 10 = 0 /\ Abs(v - w) <= 5

\* C6: a 2xx geocoder response with at least one match returns Coordinates
\* whose lat is the first match's y and whose long is its x, each rounded to 4
\* decimal places; the later matches have no influence.
FirstMatchCoordinates ==
    (GeoOk /\ Len(geo.resp.body.matches) >= 1) =>
        /\ geo.out.status = "returned"
        /\ RoundedTo4(geo.out.lat, geo.resp.body.matches[1].y)
        /\ RoundedTo4(geo.out.long, geo.resp.body.matches[1].x)
        /\ \A m \in SeqsUpTo(Matches, MaxMatches - 1) :
              LET other == <<geo.resp.body.matches[1]>> \o m
                  o == ParseGeocoderBody(geo.street, geo.city, geo.state, geo.zip,
                                         [geo.resp.body EXCEPT !.matches = other])
              IN  o = geo.out

FirstMatchCoordinates_witness ==
    /\ GeoOk
    /\ Len(geo.resp.body.matches) = 2
    /\ geo.resp.body.matches[2].y # geo.resp.body.matches[1].y
    /\ geo.resp.body.matches[2].x # geo.resp.body.matches[1].x
    /\ geo.resp.body.matches[1].y % 10 # 0
    /\ geo.out.status = "returned"

LowCondition(t, rh) == 80 <= t /\ t <= 112 /\ rh < 13
HighCondition(t, rh) == rh > 85 /\ 80 <= t /\ t <= 87

\* C7: heat_index returns the base estimate when it is below 80; otherwise the
\* Rothfusz value with at most one correction: the low-humidity term subtracted
\* exactly when 80 <= T <= 112 and RH < 13, the high-humidity term added exactly
\* when RH > 85 and 80 <= T <= 87, never both; T=100, RH=10 takes the
\* low-humidity branch and T=82, RH=90 the high-humidity branch.
HeatIndexPiecewise ==
    hi.path # "none" =>
        LET t == forecast.temperature
            rh == forecast.relative_humidity
            est == BaseEstimate(t, rh)
            low == LowCondition(t, rh)
            high == HighCondition(t, rh)
        IN  /\ est < 80 * Scale => (hi.path = "base" /\ hi.value = est)
            /\ est >= 80 * Scale =>
                  /\ ~(low /\ high)
                  /\ (hi.path = "low") = low
                  /\ (hi.path = "high") = high
                  /\ (hi.path = "regression") = (~low /\ ~high)
                  /\ low => hi.value = Rothfusz(t, rh) - LowHumidityAdjustment(t, rh)
                  /\ high => hi.value = Rothfusz(t, rh) + HighHumidityAdjustment(t, rh)
                  /\ (~low /\ ~high) => hi.value = Rothfusz(t, rh)
            /\ (t = 100 /\ rh = 10) => hi.path = "low"
            /\ (t = 82 /\ rh = 90) => hi.path = "high"

HeatIndexPiecewise_witness ==
    /\ hi.path = "high"
    /\ forecast.temperature = 82
    /\ forecast.relative_humidity = 90
    /\ hi.value > Rothfusz(82, 90)

\* C8 as stated: for T = 70 and RH = 50 heat_index takes the base path only and
\* returns exactly 70.2.
HeatIndex70_50_Is70_2 ==
    (hi.path # "none" /\ forecast.temperature = 70 /\ forecast.relative_humidity = 50) =>
        (hi.path = "base" /\ hi.value = 702000)

\* C8 amended: for T = 70 and RH = 50 heat_index takes the base path only and
\* returns 0.5 * (70 + 61 + 2.4 + 4.7) = 69.05.
HeatIndex70_50_Is69_05 ==
    (hi.path # "none" /\ forecast.temperature = 70 /\ forecast.relative_humidity = 50) =>
        (hi.path = "base" /\ hi.value = 690500)

HeatIndex70_50_witness ==
    /\ hi.path = "base"
    /\ forecast.temperature = 70
    /\ forecast.relative_humidity = 50

RequestsOfKind(kind) == {i \in 1..Len(call.sent) : call.sent[i].kind = kind}
PointsSucceeded == call.resp1.conn /\ call.resp1.ok
                   /\ ParseProperties(call.resp1.body).status # "raised"

\* C9: on a cache miss (no cached value, or one whose age exceeds its max_age)
\* get_weekly_forecast issues exactly one points GET and then, only after it
\* succeeded, exactly one GET to the forecast URL of that points response, both
\* with the client's User-Agent; a failure is raised with no retry and no
\* WeeklyForecast returned.
CacheMissFetchesOnce ==
    (IsGet /\ (call.cached = 0 \/ Elapsed(call.cached) > heap[call.cached].max_age.v)) =>
        /\ Cardinality(RequestsOfKind("points")) = 1
        /\ call.sent[1].kind = "points"
        /\ \A i \in 1..Len(call.sent) : call.sent[i].ua = client.user_agent
        /\ Cardinality(RequestsOfKind("forecast")) = (IF PointsSucceeded THEN 1 ELSE 0)
        /\ PointsSucceeded => call.sent[2].url = call.resp1.body.forecast
        /\ call.status = "raised" => call.result = 0

\* C10: a WeeklyForecast returned by a fetch has max_age zero; passed back as
\* cached it is treated as expired: the call fetches again (points GET first)
\* and returns a new object, never an error of the expiry check.
FetchedForecastIsRefetched ==
    (IsGet /\ call.cached # 0 /\ heap[call.cached].fetched) =>
        /\ heap[call.cached].max_age.v = 0
        /\ call.stage \notin {"expiry", "cache"}
        /\ Len(call.sent) >= 1
        /\ call.status = "returned" => call.result # call.cached

====
